---- MODULE Spec2Model ----
(***************************************************************************)
(* tsh - a tiny shell with job control (src/tsh.c).                        *)
(*                                                                         *)
(* The model holds the job table, the signal mask and pending SIGCHLD of   *)
(* the shell process, the state of its child processes as the kernel sees  *)
(* them, and the position of the main flow (eval, do_bgfg, waitfg) and of  *)
(* the SIGINT/SIGTSTP handlers.  The SIGCHLD handler blocks every signal   *)
(* for its whole body, so it is one atomic step that may preempt the main  *)
(* flow between any two of its steps whenever SIGCHLD is not blocked.      *)
(***************************************************************************)
EXTENDS Integers, FiniteSets, Sequences, TLC

(* ------------------------------ bounds -------------------------------- *)
\* Number of slots of the job table (src/tsh.c:21 sizes it 16).
MAXJOBS == 4
\* The user starts a command only while fewer than MaxLive children exist.
MaxLive == 2
\* Job ids are allocated while nextjid <= MaxJid.
MaxJid == 5

(* -------------------------- program constants ------------------------- *)
UNDEF == 0
FG == 1
BG == 2
ST == 3
\* "no job" result of the lookups (a NULL struct job_t *).
NULL == -1

Slots == 0 .. (MAXJOBS - 1)
\* Process ids: one more than the table has slots.
MaxPid == MAXJOBS + 1
Pids == 1 .. MaxPid
JobStates == {FG, BG, ST}
\* parseline: the command runs in the background iff its last word is "&".
CmdlineOf(bg) == IF bg THEN "prog &\n" ELSE "prog\n"

VARIABLES
  jobs,        \* struct job_t jobs[MAXJOBS]
  nextjid,     \* int nextjid
  mask,        \* signals blocked in the main flow
  prev_sigset, \* eval's saved mask
  sigchld,     \* a SIGCHLD is pending for the shell
  child,       \* per pid: state of the child process in the kernel
  pc,          \* position of the main flow
  cur,         \* locals of the command being evaluated
  hpc,         \* position of a running SIGINT/SIGTSTP handler
  hpid,        \* that handler's local pid
  hjob,        \* that handler's local job (a slot, or NULL)
  out,         \* the line printed by the step just taken, NoOut if none
  sent,        \* the kill() made by the step just taken, NoSent if none
  call         \* last job-table call and its result

vars == <<jobs, nextjid, mask, prev_sigset, sigchld, child, pc, cur, hpc, hpid, hjob, out, sent, call>>

(* ---------------------------- the job table --------------------------- *)
\* clearjob: the value of a cleared slot.
clearjob == [pid |-> 0, jid |-> 0, state |-> UNDEF, cmdline |-> ""]

\* initjobs: every slot cleared.
initjobs == [i \in Slots |-> clearjob]

Max(S) == CHOOSE m \in S : \A x \in S : x <= m

\* maxjid: largest allocated job id, 0 for an empty table.
maxjid(js) == Max({0} \cup {js[i].jid : i \in Slots})

\* The lowest of the slots S, NULL when there is none: what the for loops
\* over the table find first.
FirstSlot(S) ==
  IF S = {} THEN NULL ELSE CHOOSE i \in S : \A k \in S : i <= k

\* getjobpid: slot of the job with this pid.
getjobpid(js, pid) ==
  IF pid < 1 THEN NULL
  ELSE FirstSlot({i \in Slots : js[i].pid = pid})

\* getjobjid that gives the first slot of the table when no job has this jid.
getjobjid_or_first(js, jid) ==
  IF {i \in Slots : js[i].jid = jid} = {} THEN 0
  ELSE FirstSlot({i \in Slots : js[i].jid = jid})

\* getjobjid: slot of the job with this jid.
getjobjid(js, jid) ==
  IF jid < 1 THEN NULL
  ELSE FirstSlot({i \in Slots : js[i].jid = jid})

\* fgpid: pid of the first slot whose state is FG, 0 if none.
fgpid(js) ==
  LET s == FirstSlot({i \in Slots : js[i].state = FG})
  IN IF s = NULL THEN 0 ELSE js[s].pid

\* pid2jid: job id of the job with this pid, 0 if none.
pid2jid(js, pid) ==
  IF pid < 1 THEN 0
  ELSE LET s == getjobpid(js, pid) IN IF s = NULL THEN 0 ELSE js[s].jid

\* The wrap of nextjid after an allocation.
WrapNextjid(n) == IF n > MAXJOBS THEN 1 ELSE n

\* addjob without the return inside the loop: every empty slot gets the job.
addjob_fills_all(js, nj, pid, state, cmdline) ==
  IF pid < 1 \/ \A i \in Slots : js[i].pid # 0
  THEN [jobs |-> js, nextjid |-> nj, ret |-> 0]
  ELSE [jobs |-> [i \in Slots |-> IF js[i].pid = 0
                                 THEN [pid |-> pid, jid |-> nj, state |-> state,
                                       cmdline |-> cmdline]
                                 ELSE js[i]],
        nextjid |-> IF nj + 1 > MAXJOBS THEN 1 ELSE nj + 1,
        ret |-> 1]

\* addjob with the test pid < 0 in place of pid < 1.
addjob_accepts_pid0(js, nj, pid, state, cmdline) ==
  LET s == FirstSlot({i \in Slots : js[i].pid = 0})
  IN IF pid < 0 \/ s = NULL
     THEN [jobs |-> js, nextjid |-> nj, ret |-> 0]
     ELSE [jobs |-> [js EXCEPT ![s] = [pid |-> pid, jid |-> nj, state |-> state,
                                       cmdline |-> cmdline]],
           nextjid |-> IF nj + 1 > MAXJOBS THEN 1 ELSE nj + 1,
           ret |-> 1]

\* addjob: first empty slot gets the job; result is the table, nextjid, return value.
addjob(js, nj, pid, state, cmdline) ==
  LET s == FirstSlot({i \in Slots : js[i].pid = 0})
  IN IF pid < 1 \/ s = NULL
     THEN [jobs |-> js, nextjid |-> nj, ret |-> 0]
     ELSE [jobs |-> [js EXCEPT ![s] = [pid |-> pid, jid |-> nj, state |-> state,
                                       cmdline |-> cmdline]],
           nextjid |-> WrapNextjid(nj + 1),
           ret |-> 1]

\* deletejob without the recomputation of nextjid.
deletejob_keeps_nextjid(js, nj, pid) ==
  LET s == getjobpid(js, pid)
  IN IF s = NULL
     THEN [jobs |-> js, nextjid |-> nj, ret |-> 0]
     ELSE [jobs |-> [js EXCEPT ![s] = clearjob], nextjid |-> nj, ret |-> 1]

\* deletejob: clear the slot of pid and recompute nextjid.
deletejob(js, nj, pid) ==
  LET s == getjobpid(js, pid)
  IN IF s = NULL
     THEN [jobs |-> js, nextjid |-> nj, ret |-> 0]
     ELSE LET cleared == [js EXCEPT ![s] = clearjob]
          IN [jobs |-> cleared, nextjid |-> maxjid(cleared) + 1, ret |-> 1]

(* ------------------------- the kernel's side --------------------------- *)
\* A child is free (no such process), run, stopped_new (stopped, the stop not
\* yet reported by waitpid), stopped, or a zombie that exited or was signaled.
ChildStates == {"free", "run", "stopped_new", "stopped", "exited", "signaled"}

\* The children that exist, zombies included.
Live(ch) == {p \in Pids : ch[p] # "free"}

\* fork: the pid of the new child, the lowest one not in use (0 when none is).
NewPid(ch) == IF Live(ch) = Pids THEN 0 ELSE CHOOSE p \in Pids \ Live(ch) : \A q \in Pids \ Live(ch) : p <= q

\* waitpid(-1, WNOHANG | WUNTRACED) can report these children.
Waitable(ch) == {p \in Pids : ch[p] \in {"stopped_new", "exited", "signaled"}}

\* kill(-pid, sig) returns 0 iff the process group exists; group 0 is the shell's own.
KillOk(ch, pid) == pid = 0 \/ (pid \in Pids /\ ch[pid] # "free")

\* Effect of kill(-pid, sig) on the children, default dispositions.
KillEffect(ch, pid, sig) ==
  IF pid \notin Pids THEN ch
  ELSE CASE sig = "SIGINT" /\ ch[pid] = "run" -> [ch EXCEPT ![pid] = "signaled"]
         [] sig = "SIGTSTP" /\ ch[pid] = "run" -> [ch EXCEPT ![pid] = "stopped_new"]
         [] sig = "SIGCONT" /\ ch[pid] \in {"stopped_new", "stopped"} ->
              [ch EXCEPT ![pid] = "run"]
         [] OTHER -> ch

(* ------------------------------ the shell ------------------------------ *)
NoCur == [pid |-> 0, bg |-> FALSE, job |-> NULL, cmd |-> "", prev_mask |-> {}]
NoOut == [kind |-> "", jid |-> 0, pid |-> 0]
\* A printed line: which message, and the job id and pid it carries.
Line(kind, jid, pid) == [kind |-> kind, jid |-> jid, pid |-> pid]
\* A call kill(-pgid, sig); pgid 0 addresses the shell's own process group.
NoSent == [sig |-> "", pgid |-> 0]
Kill(sig, pgid) == [sig |-> sig, pgid |-> pgid]
NoCall == [op |-> "", pid |-> 0, state |-> UNDEF, ret |-> 0]

Init ==
  /\ jobs = initjobs
  /\ nextjid = 1
  /\ mask = {}
  /\ prev_sigset = {}
  /\ sigchld = FALSE
  /\ child = [p \in Pids |-> "free"]
  /\ pc = "read"
  /\ cur = NoCur
  /\ hpc = "none"
  /\ hpid = 0
  /\ hjob = NULL
  /\ out = NoOut
  /\ sent = NoSent
  /\ call = NoCall

\* The shell process is alive (it has not called exit and has not crashed).
Alive == pc \notin {"exited", "crashed"}
\* A pending SIGCHLD that is not blocked: the kernel delivers it before the
\* shell executes anything else (at the latest when sigprocmask returns).
Deliverable == sigchld /\ "SIGCHLD" \notin mask
\* The main flow runs: no handler is on its stack or about to be.
MainRuns == Alive /\ hpc = "none" /\ ~Deliverable
\* pause() returns once a handler has run and returned.
Wake(p) == IF p = "paused" THEN "wf_check" ELSE p

\* eval without the blocking of SIGCHLD.
EvalBlock_nothing(m) == m

\* eval: sigprocmask(SIG_BLOCK, &mask_sigchld, &prev_sigset).
EvalBlock(m) == m \cup {"SIGCHLD"}
\* eval: sigprocmask(SIG_UNBLOCK, &mask_sigchld, NULL).
EvalUnblock(m) == m \ {"SIGCHLD"}

\* eval of an external command, up to the blocking of SIGCHLD.
eval_block(bg) ==
  /\ pc = "read" /\ MainRuns
  /\ nextjid <= MaxJid /\ maxjid(jobs) < MaxJid
  /\ prev_sigset' = mask
  /\ mask' = EvalBlock(mask)
  /\ cur' = [NoCur EXCEPT !.bg = bg]
  /\ pc' = "fork"
  /\ out' = NoOut
  /\ UNCHANGED <<jobs, nextjid, sigchld, child, hpc, hpid, hjob, call>>
  /\ sent' = NoSent

\* eval: fork() gives a new child, or fails and eval restores the mask.
eval_fork ==
  /\ pc = "fork" /\ MainRuns
  /\ \/ \E p \in Pids :
          /\ p = NewPid(child)
          /\ child' = [child EXCEPT ![p] = "run"]
          /\ cur' = [cur EXCEPT !.pid = p]
          /\ pc' = "addjob"
          /\ out' = NoOut /\ UNCHANGED mask
     \/ /\ mask' = prev_sigset
        /\ out' = Line("Unable to fork", 0, 0)
        /\ cur' = NoCur
        /\ pc' = "read"
        /\ UNCHANGED child
  /\ UNCHANGED <<jobs, nextjid, prev_sigset, sigchld, hpc, hpid, hjob, call>>
  /\ sent' = NoSent

\* eval: addjob; when it fails eval returns at once.
eval_addjob ==
  /\ pc = "addjob" /\ MainRuns
  /\ LET r == addjob(jobs, nextjid, cur.pid, IF cur.bg THEN BG ELSE FG, CmdlineOf(cur.bg))
     IN /\ jobs' = r.jobs
        /\ nextjid' = r.nextjid
        /\ IF r.ret = 0
           THEN /\ out' = Line("Failed to create job", 0, 0)
                /\ cur' = NoCur
                /\ pc' = "read"
           ELSE /\ pc' = "unblock"
                /\ out' = NoOut /\ UNCHANGED cur
  /\ UNCHANGED <<mask, prev_sigset, sigchld, child, hpc, hpid, hjob, call>>
  /\ sent' = NoSent

\* eval: unblock SIGCHLD, then print the launch line or call waitfg.
eval_unblock ==
  /\ pc = "unblock" /\ MainRuns
  /\ mask' = EvalUnblock(mask)
  /\ pc' = IF cur.bg THEN "bgprint" ELSE "waitfg"
  /\ out' = NoOut /\ UNCHANGED <<jobs, nextjid, prev_sigset, sigchld, child, cur, hpc, hpid, hjob, call>>
  /\ sent' = NoSent

\* eval: printf("[%d] (%d) %s", pid2jid(pid), pid, cmdline).
eval_bgprint ==
  /\ pc = "bgprint" /\ MainRuns
  /\ out' = Line("launch", pid2jid(jobs, cur.pid), cur.pid)
  /\ cur' = NoCur
  /\ pc' = "read"
  /\ UNCHANGED <<jobs, nextjid, mask, prev_sigset, sigchld, child, hpc, hpid, hjob, call>>
  /\ sent' = NoSent

\* waitfg: sigprocmask(SIG_BLOCK, &mask_none, &prev_mask) with mask_none empty.
waitfg_enter ==
  /\ pc = "waitfg" /\ MainRuns
  /\ cur' = [cur EXCEPT !.prev_mask = mask]
  /\ mask' = mask \cup {}
  /\ pc' = "wf_check"
  /\ out' = NoOut /\ UNCHANGED <<jobs, nextjid, prev_sigset, sigchld, child, hpc, hpid, hjob, call>>
  /\ sent' = NoSent

\* waitfg that never waits.
waiting_never(js, pid) == FALSE

\* waitfg that tests for BG in place of FG.
waiting_for_bg(js, pid) ==
  LET job == getjobpid(js, pid) IN job # NULL /\ js[job].state = BG

\* waitfg: waiting = (job && job->state == FG).
waiting(js, pid) ==
  LET job == getjobpid(js, pid) IN job # NULL /\ js[job].state = FG

\* waitfg: one test of the loop; on exit sigprocmask(SIG_BLOCK, &prev_mask, NULL).
waitfg_check ==
  /\ pc = "wf_check" /\ MainRuns
  /\ IF waiting(jobs, cur.pid)
     THEN /\ pc' = "wf_pause"
          /\ UNCHANGED <<mask, cur>>
     ELSE /\ mask' = mask \cup cur.prev_mask
          /\ cur' = NoCur
          /\ pc' = "read"
  /\ out' = NoOut /\ UNCHANGED <<jobs, nextjid, prev_sigset, sigchld, child, hpc, hpid, hjob, call>>
  /\ sent' = NoSent

\* waitfg: the call of pause(), after the test found the job in FG.
waitfg_pause ==
  /\ pc = "wf_pause" /\ MainRuns
  /\ pc' = "paused"
  /\ out' = NoOut /\ UNCHANGED <<jobs, nextjid, mask, prev_sigset, sigchld, child, cur, hpc, hpid, hjob, call>>
  /\ sent' = NoSent

(* bg and fg *)
\* Arguments tried for bg/fg: a pid or a %jid in this range (0 is what strtol
\* gives for an empty number).
Ids == 0 .. MaxJid
ArgKinds == {"argc", "bad", "jid", "pid"}

\* do_bgfg up to the lookup of the job: the usage errors and "No such job".
do_bgfg_lookup(cmd, kind, id) ==
  /\ pc = "read" /\ MainRuns
  /\ IF kind = "argc"
     THEN /\ out' = Line("requires PID or %jobid argument", 0, 0)
          /\ UNCHANGED <<pc, cur>>
     ELSE IF kind = "bad"
     THEN /\ out' = Line("argument must be a PID or %jobid", 0, 0)
          /\ UNCHANGED <<pc, cur>>
     ELSE LET job == IF kind = "jid" THEN getjobjid(jobs, id) ELSE getjobpid(jobs, id)
          IN IF job = NULL
             THEN /\ out' = IF kind = "jid"
                            THEN Line("No such job", id, 0)
                            ELSE Line("No such process", 0, id)
                  /\ UNCHANGED <<pc, cur>>
             ELSE /\ out' = NoOut
                  /\ cur' = [NoCur EXCEPT !.job = job, !.cmd = cmd]
                  /\ pc' = "bgfg_kill"
  /\ UNCHANGED <<jobs, nextjid, mask, prev_sigset, sigchld, child, hpc, hpid, hjob, call>>
  /\ sent' = NoSent

\* do_bgfg: kill(-job->pid, SIGCONT), job->pid read at this moment.
do_bgfg_kill ==
  /\ pc = "bgfg_kill" /\ MainRuns
  /\ child' = KillEffect(child, jobs[cur.job].pid, "SIGCONT")
  /\ sigchld' = (sigchld \/ child' # child)
  /\ pc' = "bgfg_set"
  /\ out' = NoOut /\ UNCHANGED <<jobs, nextjid, mask, prev_sigset, cur, hpc, hpid, hjob, call>>
  /\ sent' = Kill("SIGCONT", jobs[cur.job].pid)

\* do_bgfg that sets BG for fg as well.
BgfgState_always_bg(cmd) == BG

\* do_bgfg with the two states exchanged.
BgfgState_swapped(cmd) == IF cmd = "bg" THEN FG ELSE BG

\* do_bgfg that marks the job stopped.
BgfgState_stopped(cmd) == ST

\* do_bgfg: the state the command gives the job.
BgfgState(cmd) == IF cmd = "bg" THEN BG ELSE FG

\* do_bgfg: bg prints the job and sets BG; fg sets FG.
do_bgfg_set ==
  /\ pc = "bgfg_set" /\ MainRuns
  /\ jobs' = [jobs EXCEPT ![cur.job].state = BgfgState(cur.cmd)]
  /\ IF cur.cmd = "bg"
     THEN /\ out' = Line("launch", jobs[cur.job].jid, jobs[cur.job].pid)
          /\ cur' = NoCur
          /\ pc' = "read"
     ELSE /\ pc' = "bgfg_wait"
          /\ out' = NoOut /\ UNCHANGED cur
  /\ UNCHANGED <<nextjid, mask, prev_sigset, sigchld, child, hpc, hpid, hjob, call>>
  /\ sent' = NoSent

\* do_bgfg: waitfg(job->pid), job->pid read at this moment.
do_bgfg_wait ==
  /\ pc = "bgfg_wait" /\ MainRuns
  /\ cur' = [cur EXCEPT !.pid = jobs[cur.job].pid]
  /\ pc' = "waitfg"
  /\ out' = NoOut /\ UNCHANGED <<jobs, nextjid, mask, prev_sigset, sigchld, child, hpc, hpid, hjob, call>>
  /\ sent' = NoSent

\* builtin_cmd: quit (and end of input in main) exits the shell.
builtin_quit ==
  /\ pc = "read" /\ MainRuns
  /\ pc' = "exited"
  /\ out' = NoOut /\ UNCHANGED <<jobs, nextjid, mask, prev_sigset, sigchld, child, cur, hpc, hpid, hjob, call>>
  /\ sent' = NoSent

\* builtin_cmd: jobs lists the table and changes nothing.
builtin_jobs ==
  /\ pc = "read" /\ MainRuns
  /\ out' = Line("jobs", 0, 0)
  /\ UNCHANGED <<jobs, nextjid, mask, prev_sigset, sigchld, child, pc, cur, hpc, hpid, hjob, call>>
  /\ sent' = NoSent

(* ---------------------------- signal handlers -------------------------- *)
\* The children one run of sigchld_handler takes from waitpid: the loop body
\* returns after the first child, so it is one of the waitable ones.
Reaped(ch) == {{p} : p \in Waitable(ch)}

\* The body of the waitpid loop for child p with its status.
\* Result: table, nextjid, children, line printed, whether job was NULL at job->state.
reap(js, nj, ch, p) ==
  IF ch[p] \in {"exited", "signaled"}
  THEN LET d == deletejob(js, nj, p)
       IN [jobs |-> d.jobs, nextjid |-> d.nextjid, child |-> [ch EXCEPT ![p] = "free"],
           out |-> NoOut, null |-> FALSE]
  ELSE LET job == getjobpid(js, p)
       IN IF job = NULL
          THEN [jobs |-> js, nextjid |-> nj, child |-> [ch EXCEPT ![p] = "stopped"],
                out |-> NoOut, null |-> TRUE]
          ELSE [jobs |-> [js EXCEPT ![job].state = ST], nextjid |-> nj,
                child |-> [ch EXCEPT ![p] = "stopped"],
                out |-> Line("stopped", js[job].jid, p),
                null |-> FALSE]

\* sigchld_handler, delivered when SIGCHLD is pending and not blocked.
sigchld_handler ==
  /\ Alive /\ Deliverable
  /\ sigchld' = FALSE
  /\ IF Waitable(child) = {}
     THEN /\ pc' = Wake(pc)
          /\ out' = NoOut /\ UNCHANGED <<jobs, nextjid, child>>
     ELSE \E R \in Reaped(child) : \E p \in R :
            LET r == reap(jobs, nextjid, child, p)
            IN /\ jobs' = r.jobs
               /\ nextjid' = r.nextjid
               /\ child' = r.child
               /\ out' = r.out
               /\ pc' = IF r.null THEN "crashed" ELSE Wake(pc)
  /\ UNCHANGED <<mask, prev_sigset, cur, hpc, hpid, hjob, call>>
  /\ sent' = NoSent

\* sigint_handler / sigtstp_handler up to the test of fgpid(jobs).
sig_handler_enter(sig) ==
  /\ Alive /\ hpc = "none"
  /\ LET pid == fgpid(jobs)
     IN IF pid = 0
        THEN /\ out' = Line("no foreground job exists", 0, 0)
             /\ pc' = Wake(pc)
             /\ UNCHANGED <<hpc, hpid>>
        ELSE /\ hpc' = sig
             /\ hpid' = pid
             /\ out' = NoOut /\ UNCHANGED pc
  /\ UNCHANGED <<jobs, nextjid, mask, prev_sigset, sigchld, child, cur, hjob, call>>
  /\ sent' = NoSent

\* sigint_handler / sigtstp_handler: getjobpid and kill(-pid, sig).
\* sigtstp_handler returns after a kill that succeeded; sigint_handler goes
\* on to its report.
sig_handler_kill ==
  /\ Alive /\ hpc \in {"SIGINT", "SIGTSTP"} /\ ~Deliverable
  /\ LET job == getjobpid(jobs, hpid)
         ok == KillOk(child, hpid)
     IN /\ child' = KillEffect(child, hpid, hpc)
        /\ sigchld' = (sigchld \/ child' # child)
        /\ IF ~ok
           THEN /\ out' = Line(IF hpc = "SIGINT" THEN "Interrupt error" ELSE "Stop error",
                                0, hpid)
                /\ pc' = Wake(pc)
                /\ hpc' = "none" /\ hpid' = 0 /\ hjob' = NULL
           ELSE IF hpc = "SIGINT"
           THEN /\ hpc' = "report" /\ hjob' = job
                /\ out' = NoOut /\ UNCHANGED <<pc, hpid>>
           ELSE /\ pc' = Wake(pc)
                /\ out' = NoOut
                /\ hpc' = "none" /\ hpid' = 0 /\ hjob' = NULL
  /\ UNCHANGED <<jobs, nextjid, mask, prev_sigset, cur, call>>
  /\ sent' = Kill(hpc, hpid)

\* sigint_handler: the report after the kill, which reads job->jid.  The
\* killed child may die, and its SIGCHLD arrive, before or after this step.
sig_handler_report ==
  /\ Alive /\ hpc = "report"
  /\ IF hjob = NULL
     THEN /\ pc' = "crashed"
          /\ out' = NoOut
     ELSE /\ out' = Line("terminated", jobs[hjob].jid, hpid)
          /\ pc' = Wake(pc)
  /\ hpc' = "none" /\ hpid' = 0 /\ hjob' = NULL
  /\ UNCHANGED <<jobs, nextjid, mask, prev_sigset, sigchld, child, cur, call>>
  /\ sent' = NoSent

(* ------------------------------ children ------------------------------- *)
\* A running child exits.
child_exit(p) ==
  /\ Alive /\ child[p] = "run"
  /\ child' = [child EXCEPT ![p] = "exited"]
  /\ sigchld' = TRUE
  /\ out' = NoOut /\ UNCHANGED <<jobs, nextjid, mask, prev_sigset, pc, cur, hpc, hpid, hjob, call>>
  /\ sent' = NoSent

\* A child is killed by a signal it got from elsewhere.
child_signaled(p) ==
  /\ Alive /\ child[p] \in {"run", "stopped_new", "stopped"}
  /\ child' = [child EXCEPT ![p] = "signaled"]
  /\ sigchld' = TRUE
  /\ out' = NoOut /\ UNCHANGED <<jobs, nextjid, mask, prev_sigset, pc, cur, hpc, hpid, hjob, call>>
  /\ sent' = NoSent

\* A running child is stopped by a signal it got from elsewhere.
child_stopped(p) ==
  /\ Alive /\ child[p] = "run"
  /\ child' = [child EXCEPT ![p] = "stopped_new"]
  /\ sigchld' = TRUE
  /\ out' = NoOut /\ UNCHANGED <<jobs, nextjid, mask, prev_sigset, pc, cur, hpc, hpid, hjob, call>>
  /\ sent' = NoSent

(* ---------------------------- specifications --------------------------- *)
MainStep ==
  \/ eval_fork
  \/ eval_addjob
  \/ eval_unblock
  \/ eval_bgprint
  \/ waitfg_enter
  \/ waitfg_check
  \/ waitfg_pause
  \/ do_bgfg_kill
  \/ do_bgfg_set
  \/ do_bgfg_wait

\* The user starts a command, in the background or not, only while fewer
\* than MaxLive children exist.
Starts == IF Cardinality(Live(child)) < MaxLive THEN BOOLEAN ELSE {}

Command ==
  \/ \E bg \in Starts : eval_block(bg)
  \/ \E cmd \in {"bg", "fg"}, kind \in ArgKinds, id \in Ids : do_bgfg_lookup(cmd, kind, id)
  \/ builtin_quit
  \/ builtin_jobs

Environment ==
  \/ \E sig \in {"SIGINT", "SIGTSTP"} : sig_handler_enter(sig)
  \/ \E p \in Pids : child_exit(p)
  \/ \E p \in Pids : child_signaled(p)
  \/ \E p \in Pids : child_stopped(p)

Next ==
  \/ Command
  \/ MainStep
  \/ sigchld_handler
  \/ sig_handler_kill
  \/ sig_handler_report
  \/ Environment

Spec == Init /\ [][Next]_vars

\* The kernel delivers a pending unblocked SIGCHLD; a handler that has started
\* runs to its end and the main flow goes on, however often signals interrupt
\* them.  What the user types and what the children do is up to them.
FairSpec ==
  /\ Spec
  /\ WF_vars(sigchld_handler)
  /\ SF_vars(sig_handler_kill)
  /\ SF_vars(sig_handler_report)
  /\ SF_vars(MainStep)

(* ------------------- the job table driven call by call ------------------ *)
\* Pids given to the calls; 0 is the pid addjob and deletejob refuse.
CallPids == {0, 1, 2}
\* States given to addjob: eval passes FG or BG.
CallStates == {FG, BG}

\* One call addjob(jobs, pid, state, cmdline) by any caller.
t_addjob(pid, state) ==
  /\ nextjid <= MaxJid
  /\ LET r == addjob(jobs, nextjid, pid, state, CmdlineOf(state = BG))
     IN /\ jobs' = r.jobs
        /\ nextjid' = r.nextjid
        /\ call' = [op |-> "addjob", pid |-> pid, state |-> state, ret |-> r.ret]
  /\ UNCHANGED <<mask, prev_sigset, sigchld, child, pc, cur, hpc, hpid, hjob, out, sent>>

\* One call deletejob(jobs, pid) by any caller.
t_deletejob(pid) ==
  /\ LET r == deletejob(jobs, nextjid, pid)
     IN /\ jobs' = r.jobs
        /\ nextjid' = r.nextjid
        /\ call' = [op |-> "deletejob", pid |-> pid, state |-> UNDEF, ret |-> r.ret]
  /\ UNCHANGED <<mask, prev_sigset, sigchld, child, pc, cur, hpc, hpid, hjob, out, sent>>

(* --------------- background jobs until the table is full --------------- *)
\* The user only starts background commands, with no limit on their number,
\* and the children only exit: the table fills up and addjob fails in eval.
BgStep ==
  \/ eval_fork
  \/ eval_addjob
  \/ eval_unblock
  \/ eval_bgprint

FullNext ==
  \/ eval_block(TRUE)
  \/ BgStep
  \/ sigchld_handler
  \/ \E p \in Pids : child_exit(p)

FullSpec == Init /\ [][FullNext]_vars

\* The kernel delivers a pending unblocked SIGCHLD, eval runs to its end and
\* every child exits in the end.
FairFullSpec ==
  /\ FullSpec
  /\ WF_vars(sigchld_handler)
  /\ WF_vars(BgStep)
  /\ \A p \in Pids : WF_vars(child_exit(p))

TableNext ==
  \/ \E pid \in CallPids, state \in CallStates : t_addjob(pid, state)
  \/ \E pid \in CallPids : t_deletejob(pid)

TableSpec == Init /\ [][TableNext]_vars

(* ------------------------------- claims -------------------------------- *)
\* A step of sigchld_handler: it alone consumes the pending SIGCHLD.
HandlerStep == sigchld /\ ~sigchld'
\* The slots that hold a job.
LiveSlots(js) == {i \in Slots : js[i].pid # 0}
\* The main flow is inside waitfg's loop.
InWaitfg == pc \in {"wf_check", "wf_pause", "paused"}
\* The child with this pid has terminated and is not reaped yet.
Terminated(p) == child[p] \in {"exited", "signaled"}

\* C1: one run of sigchld_handler leaves no child waitable that was waitable
\* when it started.
C1_HandlerReapsAllPending ==
  [][HandlerStep => Waitable(child) \cap Waitable(child') = {}]_vars

\* C2: a job whose process has terminated is eventually removed from the
\* table (unless the shell itself ends first).
C2_NoJobOutlivesItsProcess ==
  \A p \in Pids :
    (Terminated(p) /\ getjobpid(jobs, p) # NULL) ~> (getjobpid(jobs, p) = NULL \/ ~Alive)

\* C3: once the job waitfg waits for is absent or not in FG state, waitfg
\* eventually returns (unless the shell itself ends first).
C3_WaitfgNoLostWakeup ==
  (InWaitfg /\ (getjobpid(jobs, cur.pid) = NULL \/ jobs[getjobpid(jobs, cur.pid)].state # FG))
    ~> (~InWaitfg \/ ~Alive)

\* C4: the main flow is at the read loop only when no job is in FG state:
\* waitfg has returned for every job that was put in the foreground.
C4_NoForegroundJobAtRead ==
  pc = "read" => \A i \in LiveSlots(jobs) : jobs[i].state # FG

\* C4 witness: waitfg returned because the foreground job was stopped.
C4_Witness ==
  /\ pc = "read"
  /\ \E i \in LiveSlots(jobs) : jobs[i].state = ST /\ jobs[i].cmdline = CmdlineOf(FALSE)

\* C5: at most one job of the table is in FG state.
C5_AtMostOneForegroundJob ==
  Cardinality({i \in LiveSlots(jobs) : jobs[i].state = FG}) <= 1

\* C5 witness: a foreground job next to another job, put there by fg.
C5_Witness ==
  /\ Cardinality(LiveSlots(jobs)) >= 2
  /\ \E i \in LiveSlots(jobs) : jobs[i].state = FG /\ jobs[i].cmdline = CmdlineOf(TRUE)

NoDupPid(js) == \A i, j \in LiveSlots(js) : i # j => js[i].pid # js[j].pid
OneFg(js) == Cardinality({i \in Slots : js[i].state = FG}) <= 1

\* C6 as claimed: after any sequence of addjob/deletejob calls no two
\* entries share a pid and at most one entry is in FG state.
C6_TableUniqueForAnyCalls == NoDupPid(jobs) /\ OneFg(jobs)

\* The caller of addjob gives a pid that is not in the table, and gives FG
\* only when no entry is in FG state.
C6_CallerKeepsUnique ==
  call'.op = "addjob" =>
    /\ getjobpid(jobs, call'.pid) = NULL
    /\ call'.state = FG => \A i \in Slots : jobs[i].state # FG

\* C6 amended: a deletejob call, and an addjob call whose pid is not in the
\* table and which adds no second FG entry, keep the pids of the table
\* distinct and at most one entry in FG state.
C6_TableUniqueForDistinctCalls ==
  [][(NoDupPid(jobs) /\ OneFg(jobs) /\ C6_CallerKeepsUnique)
       => (NoDupPid(jobs') /\ OneFg(jobs'))]_vars

\* C6 witness: addjob has put a second job in a table that holds one FG job.
C6_Witness ==
  /\ call.op = "addjob" /\ call.ret = 1
  /\ Cardinality(LiveSlots(jobs)) >= 2
  /\ NoDupPid(jobs)
  /\ Cardinality({i \in Slots : jobs[i].state = FG}) = 1

\* C7: the job id a successful addjob assigns is greater than every job id
\* that was in the table before the call.
C7_NewJidAboveAll ==
  [][(call'.op = "addjob" /\ call'.ret = 1)
       => \A i \in Slots : jobs'[i] # jobs[i] => jobs'[i].jid > maxjid(jobs)]_vars

\* C8: SIGCHLD is blocked from fork until after addjob, and every child that
\* sigchld_handler processes has its job in the table at that moment.
C8_HandlerFindsJobOfEveryChild ==
  /\ [](pc \in {"fork", "addjob", "unblock"} => "SIGCHLD" \in mask)
  /\ [][HandlerStep => \A p \in Pids : child'[p] # child[p] => getjobpid(jobs, p) # NULL]_vars

\* C8 witness: the handler has reaped and deleted a background job that eval
\* had launched.
C8_Witness ==
  /\ pc = "read"
  /\ out.kind = "launch" /\ out.pid \in Pids
  /\ child[out.pid] = "free"
  /\ getjobpid(jobs, out.pid) = NULL

\* C9: the main flow writes the job table (addjob in eval, the state change
\* in do_bgfg) only while SIGCHLD is blocked.
C9_MainWritesWithSigchldBlocked ==
  pc \in {"addjob", "bgfg_set"} => "SIGCHLD" \in mask

Full(js) == \A i \in Slots : js[i].pid # 0

\* C10: addjob on a full table or with pid < 1 returns 0 and leaves the table
\* and nextjid as they were.
C10_AddjobRefusalChangesNothing ==
  [][(call'.op = "addjob" /\ (Full(jobs) \/ call'.pid < 1))
       => (call'.ret = 0 /\ jobs' = jobs /\ nextjid' = nextjid)]_vars

\* C10 witness: addjob was refused a valid pid because the table is full.
C10_Witness ==
  /\ call.op = "addjob" /\ call.ret = 0 /\ call.pid >= 1
  /\ Full(jobs)

\* C11: after eval failed to register a job because the table was full, and
\* with every child exiting in the end, a slot of the table becomes free
\* again, so that a later command can be registered.
C11_RecoversFromFullTable ==
  (out.kind = "Failed to create job") ~> ~Full(jobs)

\* The error messages of do_bgfg.
BgfgErrors == {"requires PID or %jobid argument", "argument must be a PID or %jobid",
               "No such job", "No such process"}

\* C12: a bg/fg command that ends in one of do_bgfg's error messages sends no
\* signal, leaves the job table, the children and the mask as they were and
\* comes back to the read loop; do_bgfg goes past its lookup only with a job
\* of the table.
C12_BgfgErrorHasNoEffect ==
  [][/\ (pc = "read" /\ out'.kind \in BgfgErrors)
          => /\ jobs' = jobs /\ nextjid' = nextjid
             /\ child' = child /\ sent' = NoSent
             /\ mask' = mask /\ pc' = "read"
     /\ (pc = "read" /\ pc' = "bgfg_kill")
          => /\ cur'.job \in Slots
             /\ jobs[cur'.job].pid # 0]_vars

\* C12 witness: "%jid: No such job" was reported while the table holds a job.
C12_Witness ==
  /\ out.kind = "No such job"
  /\ pc = "read"
  /\ LiveSlots(jobs) # {}

\* C13: bg sets the state of the job it resolved to BG and is back at the
\* read loop with that step; fg sets it to FG, goes on to waitfg, and is back
\* at the read loop only when that job is gone or not in FG state.
C13_BgReturnsFgWaits ==
  [][/\ (pc = "bgfg_set" /\ pc' \notin {"bgfg_set", "crashed"} /\ cur.cmd = "bg")
          => (jobs'[cur.job].state = BG /\ pc' = "read")
     /\ (pc = "bgfg_set" /\ pc' \notin {"bgfg_set", "crashed"} /\ cur.cmd = "fg")
          => (jobs'[cur.job].state = FG /\ pc' = "bgfg_wait")
     /\ (cur.cmd = "fg" /\ pc # "read" /\ pc' = "read")
          => (jobs'[cur.job].pid = 0 \/ jobs'[cur.job].state # FG)]_vars

\* C13 witness: fg waits in pause() for a job that was started in the
\* foreground and stopped, next to a stopped foreground job that bg resumed.
C13_Witness ==
  /\ pc = "paused" /\ cur.cmd = "fg"
  /\ jobs[cur.job].state = FG /\ jobs[cur.job].cmdline = CmdlineOf(FALSE)
  /\ \E i \in LiveSlots(jobs) : jobs[i].state = BG /\ jobs[i].cmdline = CmdlineOf(FALSE)

\* The jobs of the table in FG state.
FgJobs(js) == {i \in LiveSlots(js) : js[i].state = FG}
\* A step in which sigint_handler or sigtstp_handler starts.
SigHandlerStarts ==
  hpc = "none" /\ (hpc' # "none" \/ out'.kind = "no foreground job exists")

\* C14: when sigint_handler or sigtstp_handler starts and a job is in FG
\* state, the handler goes on to signal the process group of that job, and
\* the kill it makes has that group as its target; when no job is in FG state
\* it ends without a kill.
C14_SignalGoesToForegroundJob ==
  [][/\ SigHandlerStarts
          => /\ \A i \in FgJobs(jobs) : hpc' # "none" /\ hpid' = jobs[i].pid
             /\ FgJobs(jobs) = {} => hpc' = "none"
     /\ sent'.sig \in {"SIGINT", "SIGTSTP"}
          => sent' = Kill(hpc, hpid)]_vars

\* A step of sigint_handler or sigtstp_handler: its start, its kill or its report.
SigHandlerStep == SigHandlerStarts \/ (hpc # "none" /\ hpc' # hpc)

\* C15: no step of sigint_handler or sigtstp_handler changes a slot of the
\* job table or nextjid; a job is removed from the table, or becomes ST,
\* only in a step of sigchld_handler.
C15_SigHandlersLeaveTable ==
  [][/\ SigHandlerStep => (jobs' = jobs /\ nextjid' = nextjid)
     /\ (\E i \in LiveSlots(jobs) :
            \/ jobs'[i].pid # jobs[i].pid
            \/ (jobs'[i].state = ST /\ jobs[i].state # ST))
          => HandlerStep]_vars

\* C15 witness: sigint_handler has signalled the foreground job, which is
\* still in the table in FG state.
C15_Witness ==
  /\ hpc = "report" /\ sent = Kill("SIGINT", hpid)
  /\ getjobpid(jobs, hpid) # NULL
  /\ jobs[getjobpid(jobs, hpid)].state = FG

\* C16: every "Job [jid] (pid) terminated by signal" report carries the job
\* id of a job, as allocated by addjob (at least 1), for the pid of a child.
C16_ReportCarriesJobId ==
  out.kind = "terminated" => (out.jid >= 1 /\ out.pid \in Pids)

\* C17: deletejob(pid) for a pid of the table returns 1, clears one slot that
\* held this pid, leaves the other slots as they were and sets nextjid to one
\* more than the largest job id left (1 when no job is left); for a pid that
\* is not in the table, or pid < 1, it returns 0 and changes nothing.
C17_DeletejobClearsOneSlot ==
  [][call'.op = "deletejob"
       => IF call'.pid >= 1 /\ \E i \in Slots : jobs[i].pid = call'.pid
          THEN /\ call'.ret = 1
               /\ \E i \in Slots :
                    /\ jobs[i].pid = call'.pid
                    /\ jobs'[i] = clearjob
                    /\ \A k \in Slots \ {i} : jobs'[k] = jobs[k]
               /\ \A i \in Slots : jobs'[i].jid < nextjid'
               /\ nextjid' = 1 \/ \E i \in Slots : jobs'[i].jid = nextjid' - 1
               /\ LiveSlots(jobs') = {} => (nextjid' = 1 /\ maxjid(jobs') = 0)
          ELSE /\ call'.ret = 0
               /\ jobs' = jobs /\ nextjid' = nextjid]_vars

\* C17 witness: deletejob has removed a job from below another one, and
\* nextjid is no longer what the last addjob left.
C17_Witness ==
  /\ call.op = "deletejob" /\ call.ret = 1
  /\ \E i, k \in Slots : i < k /\ jobs[i].pid = 0 /\ jobs[k].pid # 0
  /\ nextjid > MAXJOBS

\* C18: the kill(.., SIGCONT) of do_bgfg has as its target the process group
\* of a job that is in the table, never group 0.
C18_SigcontGoesToJob ==
  sent.sig = "SIGCONT" => (sent.pgid # 0 /\ getjobpid(jobs, sent.pgid) # NULL)

\* C19: the launch line that eval prints for a background command carries
\* the pid of the child and a job id that addjob can have assigned (>= 1).
C19_LaunchLineCarriesJobId ==
  [][(pc = "bgprint" /\ pc' = "read")
       => (out'.kind = "launch" /\ out'.pid = cur.pid /\ out'.jid >= 1)]_vars

\* The changes of state that a step makes to jobs that stay in the table.
StateChanges ==
  {<<jobs[i].state, jobs'[i].state>> :
     i \in {k \in LiveSlots(jobs) : jobs'[k].pid = jobs[k].pid
                                     /\ jobs'[k].state # jobs[k].state}}

C21_EvalRestoresMask ==
  [][(pc # "read" /\ pc' = "read")
       => (mask' = prev_sigset /\ "SIGCHLD" \notin mask')]_vars

\* C22: no two jobs of the table have the same job id.
C22_JobIdsUnique ==
  \A i, k \in LiveSlots(jobs) : i # k => jobs[i].jid # jobs[k].jid

\* C23: every slot with pid 0 has jid 0 and state UNDEF.
C23_EmptySlotsWellFormed ==
  \A i \in Slots : jobs[i].pid = 0 => (jobs[i].jid = 0 /\ jobs[i].state = UNDEF)

====
